---- MODULE Spec2Model ----
(***************************************************************************)
(* Model of tractseg/experiments/pretrained_models/old/                    *)
(* EndingsSeg_12g90g270g_125mm_DAugAll.py:                                 *)
(*                                                                         *)
(*   class Config(EndingsSegConfig):                                       *)
(*       EXP_NAME = os.path.basename(__file__).split(".")[0]               *)
(*       NUM_EPOCHS = 500                                                  *)
(*       DATA_AUGMENTATION = True                                          *)
(*                                                                         *)
(* The state is the class object the class statement creates (its own      *)
(* namespace), the base class it inherits from, the path of the defining   *)
(* file, and the training harness reading and assigning class attributes.  *)
(* Strings are sequences of one-character strings.                         *)
(***************************************************************************)
EXTENDS Integers, Sequences, FiniteSets, TLC

\* ------------------------------------------------------------- bounds
\* Longest defining file path (in characters).
MaxLen == 5
\* Most attribute assignments the harness makes in one behaviour.
MaxAssign == 2

\* Characters of a path: a letter, the extension separator, the POSIX
\* directory separator.
Chars == {"a", ".", "/"}

\* ------------------------------------------------------------- values
\* Python values are dynamically typed; one record shape holds them all so
\* that any two values can be compared.
PyStr(s) == [t |-> "str", s |-> s, n |-> 0, b |-> FALSE]
PyInt(n) == [t |-> "int", s |-> <<>>, n |-> n, b |-> FALSE]
PyBool(b) == [t |-> "bool", s |-> <<>>, n |-> 0, b |-> b]
\* What a read of an attribute that no class of the MRO defines yields to
\* the harness (AttributeError).
NoAttr == [t |-> "missing", s |-> <<>>, n |-> 0, b |-> FALSE]

\* The three attributes the class body binds, and one attribute only the
\* base class may define.
Overrides == {"EXP_NAME", "NUM_EPOCHS", "DATA_AUGMENTATION"}
Fields == Overrides \cup {"MODEL"}

\* Values a base class, or the harness, may hold for an attribute; all
\* differ from the values the class body binds.
OtherVals == {PyInt(1), PyBool(FALSE)}

\* A class namespace: a function from the attribute names it defines.
Bases == UNION {[D -> OtherVals] : D \in SUBSET Fields}

\* ------------------------------------------------------------- os.path.basename, str.split
\* posixpath.basename(p): i = p.rfind('/') + 1; return p[i:]
RFindSlash(p) ==
  LET I == {i \in 1..Len(p) : p[i] = "/"}
  IN IF I = {} THEN 0 ELSE CHOOSE i \in I : \A j \in I : j <= i

\* A basename that forgets to strip the directory part.
BasenameWhole(p) == p

Basename(p) == SubSeq(p, RFindSlash(p) + 1, Len(p))

\* s.find(sep) for a one-character sep, 1-based; 0 when absent.
Find(s, sep) ==
  LET I == {i \in 1..Len(s) : s[i] = sep}
  IN IF I = {} THEN 0 ELSE CHOOSE i \in I : \A j \in I : i <= j

\* A variant of str.split that drops empty pieces (as split() with no
\* separator, or other languages' split, does).
RECURSIVE SplitDropEmpty(_, _)
SplitDropEmpty(s, sep) ==
  LET i == Find(s, sep)
  IN IF i = 0
       THEN (IF s = <<>> THEN <<>> ELSE <<s>>)
       ELSE (IF i = 1 THEN <<>> ELSE <<SubSeq(s, 1, i - 1)>>)
              \o SplitDropEmpty(SubSeq(s, i + 1, Len(s)), sep)

\* s.split(sep): the pieces between occurrences of sep, empty ones kept;
\* always at least one piece.
RECURSIVE Split(_, _)
Split(s, sep) ==
  LET i == Find(s, sep)
  IN IF i = 0
       THEN <<s>>
       ELSE <<SubSeq(s, 1, i - 1)>> \o Split(SubSeq(s, i + 1, Len(s)), sep)

\* The list os.path.basename(__file__).split(".")
Pieces(path) == Split(Basename(path), ".")

\* Paths a defining file can have: non-empty, and the final component is a
\* file name (not empty, not "." or "..").
Paths ==
  {p \in UNION {[1..n -> Chars] : n \in 1..MaxLen} :
     /\ p[Len(p)] # "/"
     /\ Basename(p) \notin {<<".">>, <<".", ".">>}}

\* The path and base used while the other input varies.
RefPath == <<"a", ".", "a">>
RefBase == [f \in {"NUM_EPOCHS", "MODEL"} |-> IF f = "MODEL" THEN PyBool(FALSE) ELSE PyInt(1)]

\* ------------------------------------------------------------- state
VARIABLES
  pc,      \* "start": class statement not yet executed; "defined"; "error"
  file,    \* __file__ of the defining module
  base,    \* namespace of EndingsSegConfig as seen through its MRO
  own,     \* Config.__dict__: the attributes bound on the class itself
  first,   \* the merged configuration as the first construction produced it
  op,      \* the last operation: "none", "class", "getattr", "setattr"
  got,     \* the value the harness' last read returned
  nset     \* number of assignments the harness has made

vars == <<pc, file, base, own, first, op, got, nset>>

NoDict == [f \in {} |-> NoAttr]

\* ------------------------------------------------------------- the class
NumEpochs == 500

\* The namespace the class body builds (lines 6, 8, 9).
ClassBodyNoEpochs(path) ==
  [f \in {"EXP_NAME", "DATA_AUGMENTATION"} |->
     IF f = "EXP_NAME" THEN PyStr(Pieces(path)[1]) ELSE PyBool(TRUE)]

ClassBodyNoAug(path) ==
  [f \in {"EXP_NAME", "NUM_EPOCHS"} |->
     IF f = "EXP_NAME" THEN PyStr(Pieces(path)[1]) ELSE PyInt(NumEpochs)]

ClassBodyExtra(path) ==
  [f \in Fields |->
     CASE f = "EXP_NAME" -> PyStr(Pieces(path)[1])
       [] f = "NUM_EPOCHS" -> PyInt(NumEpochs)
       [] f = "DATA_AUGMENTATION" -> PyBool(TRUE)
       [] OTHER -> PyBool(TRUE)]

ClassBody(path) ==
  [f \in Overrides |->
     CASE f = "EXP_NAME" -> PyStr(Pieces(path)[1])
       [] f = "NUM_EPOCHS" -> PyInt(NumEpochs)
       [] OTHER -> PyBool(TRUE)]

\* Attribute lookup through the MRO: the class' own namespace first, then
\* the base's. Merged is the configuration the harness sees.
Lookup(cls, bs, f) ==
  IF f \in DOMAIN cls THEN cls[f]
  ELSE IF f \in DOMAIN bs THEN bs[f]
  ELSE NoAttr

MergedReplace == own

Merged == [f \in DOMAIN own \cup DOMAIN base |-> Lookup(own, base, f)]

\* ------------------------------------------------------------- actions
Init ==
  /\ file \in Paths
  /\ base \in Bases
  /\ (file = RefPath \/ base = RefBase)
  /\ pc = "start"
  /\ own = NoDict
  /\ first = NoDict
  /\ op = "none"
  /\ got = NoAttr
  /\ nset = 0

\* A class statement that updates the previous class object's namespace
\* instead of creating a new one.
ConstructReuse ==
  /\ pc \in {"start", "defined"}
  /\ pc' = "defined"
  /\ own' = [f \in DOMAIN own \cup Overrides |->
               IF f \in Overrides THEN ClassBody(file)[f] ELSE own[f]]
  /\ first' = IF pc = "start"
                THEN [f \in DOMAIN own' \cup DOMAIN base |-> Lookup(own', base, f)]
                ELSE first
  /\ op' = "class"
  /\ UNCHANGED <<file, base, got, nset>>

\* A definition that binds the three attributes on the base class itself
\* instead of on a subclass.
ConstructInPlace ==
  /\ pc \in {"start", "defined"}
  /\ pc' = "defined"
  /\ own' = ClassBody(file)
  /\ base' = [f \in DOMAIN base \cup Overrides |-> Lookup(ClassBody(file), base, f)]
  /\ first' = IF pc = "start"
                THEN [f \in DOMAIN own' \cup DOMAIN base |-> Lookup(own', base, f)]
                ELSE first
  /\ op' = "class"
  /\ UNCHANGED <<file, got, nset>>

\* The module body runs (import, or a later re-execution of the module):
\* the class statement evaluates its body and binds a new class object.
\* Indexing the list of pieces at [0] raises IndexError on an empty list.
Construct ==
  /\ pc \in {"start", "defined"}
  /\ IF Len(Pieces(file)) = 0
       THEN /\ pc' = "error"
            /\ UNCHANGED <<own, first>>
       ELSE /\ pc' = "defined"
            /\ own' = ClassBody(file)
            /\ first' = IF pc = "start"
                          THEN [f \in DOMAIN own' \cup DOMAIN base |->
                                  Lookup(own', base, f)]
                          ELSE first
  /\ op' = "class"
  /\ UNCHANGED <<file, base, got, nset>>

\* A read that removes the attribute it returns from the class.
GetattrPop(f) ==
  /\ pc = "defined"
  /\ got' = Lookup(own, base, f)
  /\ own' = [g \in DOMAIN own \ {f} |-> own[g]]
  /\ op' = "getattr"
  /\ UNCHANGED <<pc, file, base, first, nset>>

\* The harness reads Config.f.
Getattr(f) ==
  /\ pc = "defined"
  /\ got' = Lookup(own, base, f)
  /\ op' = "getattr"
  /\ UNCHANGED <<pc, file, base, own, first, nset>>

\* The harness assigns Config.f = v: the class defines no __setattr__,
\* metaclass or descriptor, so the assignment binds f in Config.__dict__.
Setattr(f, v) ==
  /\ pc = "defined"
  /\ nset < MaxAssign
  /\ own' = [g \in DOMAIN own \cup {f} |-> IF g = f THEN v ELSE own[g]]
  /\ nset' = nset + 1
  /\ op' = "setattr"
  /\ UNCHANGED <<pc, file, base, first, got>>

Next ==
  \/ Construct
  \/ \E f \in Fields : Getattr(f)
  \/ \E f \in Fields, v \in OtherVals : Setattr(f, v)

Spec == Init /\ [][Next]_vars

\* ------------------------------------------------------------- notions the properties use
\* The configuration as the class statement has just produced it.
Fresh == pc = "defined" /\ op = "class"

\* The final component of a path: its longest suffix holding no "/".
FinalComponent(p) ==
  LET S == {SubSeq(p, k, Len(p)) : k \in 1..(Len(p) + 1)}
      Ok == {s \in S : \A i \in 1..Len(s) : s[i] # "/"}
  IN CHOOSE s \in Ok : \A u \in Ok : Len(u) <= Len(s)

\* The longest prefix of s holding no ".".
UpToFirstDot(s) ==
  LET P == {SubSeq(s, 1, k) : k \in 0..Len(s)}
      Ok == {q \in P : \A i \in 1..Len(q) : q[i] # "."}
  IN CHOOSE q \in Ok : \A u \in Ok : Len(u) <= Len(q)

\* The directory parts a path of at most k more characters can have: empty,
\* or ending in "/".
DirPrefixes(k) ==
  {<<>>} \cup {d \in UNION {[1..n -> Chars] : n \in 1..k} : d[Len(d)] = "/"}

\* The stem of a file name: the name with its extension stripped, where the
\* extension runs from the last "." to the end and the leading dots of a name
\* start no extension (os.path.splitext).
FileStem(name) ==
  LET D == {i \in 1..Len(name) : name[i] = "."}
      d == IF D = {} THEN 0 ELSE CHOOSE i \in D : \A j \in D : j <= i
  IN IF d > 0 /\ \E i \in 1..(d - 1) : name[i] # "."
       THEN SubSeq(name, 1, d - 1)
       ELSE name

\* ------------------------------------------------------------- properties
\* C1: for every defining file path, the EXP_NAME of the configuration the
\* file produces equals the stem of the file's name (only the extension
\* stripped), also for names with several dots or a leading dot.
C1_ExpNameIsStem ==
  Fresh => Merged["EXP_NAME"] = PyStr(FileStem(FinalComponent(file)))

\* C2: every field of the merged configuration other than the three
\* overridden ones has exactly the base's value, and no field the base
\* defines is missing from the merged configuration.
C2_OthersInherited ==
  Fresh =>
    /\ DOMAIN base \subseteq DOMAIN Merged
    /\ \A f \in DOMAIN Merged \ {"EXP_NAME", "NUM_EPOCHS", "DATA_AUGMENTATION"} :
         f \in DOMAIN base /\ Merged[f] = base[f]

C2_Witness ==
  /\ Fresh
  /\ {"MODEL", "NUM_EPOCHS", "EXP_NAME"} \subseteq DOMAIN base
  /\ Merged["MODEL"] = PyInt(1)

\* C3: the produced configuration has NUM_EPOCHS = 500 whatever the base
\* defines for NUM_EPOCHS.
C3_NumEpochs500 ==
  Fresh => "NUM_EPOCHS" \in DOMAIN Merged /\ Merged["NUM_EPOCHS"] = PyInt(500)

C3_Witness ==
  /\ Fresh
  /\ "NUM_EPOCHS" \in DOMAIN base
  /\ base["NUM_EPOCHS"] = PyInt(1)
  /\ Merged["NUM_EPOCHS"] = PyInt(500)

\* C4: the produced configuration has DATA_AUGMENTATION = True whatever the
\* base defines for DATA_AUGMENTATION.
C4_DataAugmentationTrue ==
  Fresh =>
    "DATA_AUGMENTATION" \in DOMAIN Merged /\ Merged["DATA_AUGMENTATION"] = PyBool(TRUE)

C4_Witness ==
  /\ Fresh
  /\ "DATA_AUGMENTATION" \in DOMAIN base
  /\ base["DATA_AUGMENTATION"] = PyBool(FALSE)
  /\ Merged["DATA_AUGMENTATION"] = PyBool(TRUE)

C6_ExactlyThreeKeys ==
  Fresh =>
    /\ DOMAIN own = {"EXP_NAME", "NUM_EPOCHS", "DATA_AUGMENTATION"}
    /\ Cardinality(DOMAIN own) = 3
    /\ DOMAIN Merged = DOMAIN base \cup {"EXP_NAME", "NUM_EPOCHS", "DATA_AUGMENTATION"}

C6_Witness ==
  /\ Fresh
  /\ "MODEL" \in DOMAIN base
  /\ "EXP_NAME" \notin DOMAIN base
  /\ Cardinality(DOMAIN Merged) = 4

\* C7: construction never ends in an error state: for every path and base
\* the class statement ends with a complete configuration (every overridden
\* field and every base field has a value), whatever the values are.
C7_NoFailurePath ==
  /\ pc # "error"
  /\ op = "class" =>
       /\ pc = "defined"
       /\ \A f \in {"EXP_NAME", "NUM_EPOCHS", "DATA_AUGMENTATION"} \cup DOMAIN base :
            Lookup(own, base, f).t # "missing"

\* Construction succeeded on a file name of dots only, with an empty name.
C7_Witness ==
  /\ Fresh
  /\ \A i \in 1..Len(file) : file[i] = "."
  /\ Merged["EXP_NAME"] = PyStr(<<>>)

\* C8: executing the class statement leaves every field of the base
\* configuration as it was.
C8_BaseUnchanged ==
  [][op' = "class" => base' = base]_vars

C8_Witness ==
  /\ Fresh
  /\ DOMAIN base = Fields
  /\ \A f \in {"EXP_NAME", "NUM_EPOCHS", "DATA_AUGMENTATION"} : base[f] # Merged[f]

\* C9: EXP_NAME is the prefix of the path's final component up to its first
\* ".": it holds no "." and no "/", every path with the same final component
\* gives the same EXP_NAME, and it is empty when the final component begins
\* with ".".
C9_PrefixToFirstDot ==
  Fresh =>
    LET name == FinalComponent(file)
        e == Merged["EXP_NAME"]
    IN /\ e = PyStr(UpToFirstDot(name))
       /\ \A i \in 1..Len(e.s) : e.s[i] \notin {".", "/"}
       /\ \A d \in DirPrefixes(MaxLen - Len(name)) :
            ClassBody(d \o name)["EXP_NAME"] = e
       /\ name[1] = "." => e = PyStr(<<>>)

\* A file in a directory, with a dot in its name.
C9_Witness ==
  /\ Fresh
  /\ \E i \in 1..Len(file) : file[i] = "/"
  /\ \E i \in 1..Len(FinalComponent(file)) : FinalComponent(file)[i] = "."
  /\ Merged["EXP_NAME"] = PyStr(<<"a">>)

====
